---- MODULE Spec2Model ----
(***************************************************************************)
(* AI-response salvage parser and slide-content normalizer of Ai_ppt.py:   *)
(* repair_truncated_json (lines 574-636) and the normalization inside      *)
(* generate_content_with_claude (lines 726-749).                           *)
(*                                                                         *)
(* A text is a sequence of one-character strings.  Structural characters   *)
(* are themselves.  Inside string literals the letters S, T, B, I and N    *)
(* stand for the words slides, title, bullets, image_prompt and            *)
(* speaker_notes (so '"slides"' is the three characters DQ S DQ), and A,   *)
(* Z stand for any other word.  The digits 0 and 1 are the number          *)
(* literals 0 and 1 (for the operations of these lines, truth, in, item    *)
(* access and iteration, null and false behave as 0 and true as 1); texts  *)
(* never hold two adjacent digits.  String literals hold no backslash      *)
(* escapes.  Positions are Python's: 0-based, -1 for "not found".          *)
(***************************************************************************)
EXTENDS Integers, Sequences, FiniteSets, TLC

DQ == "\""
WS == " "
\* the backtick, written ~ here
BT == "~"

(***************************************************************************)
(* Python values: str, int, list, dict and None.                           *)
(***************************************************************************)
Str(c) == [k |-> "str", v |-> c]
Num(n) == [k |-> "num", v |-> n]
List(s) == [k |-> "list", v |-> s]
Dict(f) == [k |-> "dict", v |-> f]
None == [k |-> "none", v |-> 0]

K_SLIDES == <<"S">>
K_TITLE == <<"T">>
K_BULLETS == <<"B">>
K_IMAGE == <<"I">>
K_NOTES == <<"N">>

\* d[key] = val on a dict's mapping: a repeated key keeps the last value
Put(f, key, val) == [x \in (DOMAIN f) \cup {key} |-> IF x = key THEN val ELSE f[x]]

(***************************************************************************)
(* json.loads, as called at lines 587 and 618: a recursive-descent parse   *)
(* of one JSON value, whitespace allowed around every token, the whole     *)
(* text consumed.  Parser positions are 1-based indices into the text.     *)
(***************************************************************************)
RECURSIVE SkipWs(_, _)
SkipWs(t, i) == IF i <= Len(t) /\ t[i] = WS THEN SkipWs(t, i + 1) ELSE i

RECURSIVE FindChar(_, _, _)
FindChar(t, c, i) ==
    IF i > Len(t) THEN 0 ELSE IF t[i] = c THEN i ELSE FindChar(t, c, i + 1)

ParseFail == [ok |-> FALSE, val |-> None, pos |-> 0]
ParseOk(val, pos) == [ok |-> TRUE, val |-> val, pos |-> pos]

ParseString(t, i) ==
    LET j == FindChar(t, DQ, i + 1)
    IN  IF j = 0 THEN ParseFail ELSE ParseOk(Str(SubSeq(t, i + 1, j - 1)), j + 1)

RECURSIVE ParseValue(_, _)
RECURSIVE ParseElems(_, _, _)
RECURSIVE ParseMembers(_, _, _)

ParseValue(t, i) ==
    IF i > Len(t) THEN ParseFail
    ELSE IF t[i] = DQ THEN ParseString(t, i)
    ELSE IF t[i] = "0" THEN ParseOk(Num(0), i + 1)
    ELSE IF t[i] = "1" THEN ParseOk(Num(1), i + 1)
    ELSE IF t[i] = "[" THEN
        LET j == SkipWs(t, i + 1)
        IN  IF j <= Len(t) /\ t[j] = "]" THEN ParseOk(List(<<>>), j + 1)
            ELSE ParseElems(t, j, <<>>)
    ELSE IF t[i] = "{" THEN
        LET j == SkipWs(t, i + 1)
        IN  IF j <= Len(t) /\ t[j] = "}" THEN ParseOk(Dict(<<>>), j + 1)
            ELSE ParseMembers(t, j, <<>>)
    ELSE ParseFail

ParseElems(t, i, acc) ==
    LET r == ParseValue(t, i)
        j == SkipWs(t, r.pos)
    IN  IF ~r.ok \/ j > Len(t) THEN ParseFail
        ELSE IF t[j] = "]" THEN ParseOk(List(Append(acc, r.val)), j + 1)
        ELSE IF t[j] = "," THEN ParseElems(t, SkipWs(t, j + 1), Append(acc, r.val))
        ELSE ParseFail

ParseMembers(t, i, acc) ==
    IF i > Len(t) \/ t[i] # DQ THEN ParseFail
    ELSE
    LET key == ParseString(t, i)
        c == SkipWs(t, key.pos)
        r == ParseValue(t, SkipWs(t, c + 1))
        j == SkipWs(t, r.pos)
    IN  IF ~key.ok \/ c > Len(t) THEN ParseFail
        ELSE IF t[c] # ":" THEN ParseFail
        ELSE IF ~r.ok \/ j > Len(t) THEN ParseFail
        ELSE IF t[j] = "}" THEN ParseOk(Dict(Put(acc, key.val.v, r.val)), j + 1)
        ELSE IF t[j] = "," THEN
            ParseMembers(t, SkipWs(t, j + 1), Put(acc, key.val.v, r.val))
        ELSE ParseFail

JsonLoads(t) ==
    LET r == ParseValue(t, SkipWs(t, 1))
    IN  IF r.ok /\ SkipWs(t, r.pos) = Len(t) + 1 THEN r ELSE ParseFail

(***************************************************************************)
(* str methods used by repair_truncated_json.                              *)
(***************************************************************************)
RECURSIVE LStrip(_)
LStrip(t) == IF t # <<>> /\ Head(t) = WS THEN LStrip(Tail(t)) ELSE t

RECURSIVE RStrip(_)
RStrip(t) ==
    IF t # <<>> /\ t[Len(t)] = WS THEN RStrip(SubSeq(t, 1, Len(t) - 1)) ELSE t

Strip(t) == RStrip(LStrip(t))

StartsWith(t, p) == Len(t) >= Len(p) /\ SubSeq(t, 1, Len(p)) = p
EndsWith(t, p) == Len(t) >= Len(p) /\ SubSeq(t, Len(t) - Len(p) + 1, Len(t)) = p
Drop(t, n) == SubSeq(t, n + 1, Len(t))
DropLast(t, n) == SubSeq(t, 1, Len(t) - n)

\* text.find(sub, start): lowest 0-based index >= start where sub occurs, else -1
RECURSIVE Find(_, _, _)
Find(t, sub, start) ==
    IF start + Len(sub) > Len(t) THEN -1
    ELSE IF SubSeq(t, start + 1, start + Len(sub)) = sub THEN start
    ELSE Find(t, sub, start + 1)

FENCE == <<BT, BT, BT>>
FENCE_JSON == <<BT, BT, BT, "j", "s", "o", "n">>

\* Sanitize with lines 578-579 lost: the json tag stays in the text
Sanitize_NoJsonTag(json_text) ==
    LET t0 == Strip(json_text)
        t2 == IF StartsWith(t0, FENCE) THEN Drop(t0, 3) ELSE t0
        t3 == IF EndsWith(t2, FENCE) THEN DropLast(t2, 3) ELSE t2
    IN  Strip(t3)

\* Sanitize with the strip of line 584 lost
Sanitize_NoFinalStrip(json_text) ==
    LET t0 == Strip(json_text)
        t1 == IF StartsWith(t0, FENCE_JSON) THEN Drop(t0, 7) ELSE t0
        t2 == IF StartsWith(t1, FENCE) THEN Drop(t1, 3) ELSE t1
        t3 == IF EndsWith(t2, FENCE) THEN DropLast(t2, 3) ELSE t2
    IN  t3

\* lines 576-584
Sanitize(json_text) ==
    LET t0 == Strip(json_text)
        t1 == IF StartsWith(t0, FENCE_JSON) THEN Drop(t0, 7) ELSE t0
        t2 == IF StartsWith(t1, FENCE) THEN Drop(t1, 3) ELSE t1
        t3 == IF EndsWith(t2, FENCE) THEN DropLast(t2, 3) ELSE t2
    IN  Strip(t3)

(***************************************************************************)
(* Python operations used by the normalization, lines 731-745.  Each       *)
(* result carries exc: "" when no exception is raised, else its type.      *)
(***************************************************************************)
Truthy(x) ==
    CASE x.k = "none" -> FALSE
      [] x.k = "num" -> x.v # 0
      [] x.k = "str" -> x.v # <<>>
      [] x.k = "list" -> x.v # <<>>
      [] x.k = "dict" -> DOMAIN x.v # {}

\* key in x: "yes", "no", or "err" (TypeError: argument is not iterable)
In(key, x) ==
    CASE x.k = "dict" -> IF key \in DOMAIN x.v THEN "yes" ELSE "no"
      [] x.k = "str" -> IF Find(x.v, key, 0) # -1 THEN "yes" ELSE "no"
      [] x.k = "list" ->
            IF \E i \in 1..Len(x.v) : x.v[i].k = "str" /\ x.v[i].v = key
            THEN "yes" ELSE "no"
      [] OTHER -> "err"

Raise(type) == [exc |-> type, val |-> None]
Return(val) == [exc |-> "", val |-> val]

\* NormalizeSlide with line 738 lost: bullets reset whether present or not
NormalizeSlide_ResetBullets(slide, topic) ==
    IF In(K_BULLETS, slide) = "err" THEN Raise("TypeError")
    ELSE IF slide.k = "dict" THEN
        LET f1 == Put(slide.v, K_BULLETS, List(<<>>))
            f2 == IF K_IMAGE \in DOMAIN f1 THEN f1
                  ELSE Put(f1, K_IMAGE,
                           IF K_TITLE \in DOMAIN f1 THEN f1[K_TITLE] ELSE topic)
            f3 == IF K_NOTES \in DOMAIN f2 THEN f2
                  ELSE Put(f2, K_NOTES, Str(<<>>))
        IN  Return(Dict(f3))
    ELSE Raise("TypeError")

\* the body of the loop at lines 738-743 for one slide
NormalizeSlide(slide, topic) ==
    IF In(K_BULLETS, slide) = "err" THEN Raise("TypeError")
    ELSE IF slide.k = "dict" THEN
        LET f1 == IF K_BULLETS \in DOMAIN slide.v THEN slide.v
                  ELSE Put(slide.v, K_BULLETS, List(<<>>))
            f2 == IF K_IMAGE \in DOMAIN f1 THEN f1
                  ELSE Put(f1, K_IMAGE,
                           IF K_TITLE \in DOMAIN f1 THEN f1[K_TITLE] ELSE topic)
            f3 == IF K_NOTES \in DOMAIN f2 THEN f2
                  ELSE Put(f2, K_NOTES, Str(<<>>))
        IN  Return(Dict(f3))
    \* a str or a list: item assignment raises TypeError, .get AttributeError
    ELSE IF In(K_BULLETS, slide) = "no" THEN Raise("TypeError")
    ELSE IF In(K_IMAGE, slide) = "no" THEN Raise("AttributeError")
    ELSE IF In(K_NOTES, slide) = "no" THEN Raise("TypeError")
    ELSE Return(slide)

\* the slides the loop at line 737 visits: a list's items, a dict's keys
\* (in any order: the outcome does not depend on it), a str's characters
Items(x) ==
    CASE x.k = "list" -> {x.v[i] : i \in 1..Len(x.v)}
      [] x.k = "dict" -> {Str(key) : key \in DOMAIN x.v}
      [] x.k = "str" -> {Str(<<"c">>)}

\* lines 737-745: the loop over slides, then return slides
NormalizeLoop(slides_v, topic) ==
    IF slides_v.k = "num" THEN Raise("TypeError")
    ELSE IF \E s \in Items(slides_v) : NormalizeSlide(s, topic).exc # ""
    THEN NormalizeSlide(CHOOSE s \in Items(slides_v) :
                            NormalizeSlide(s, topic).exc # "", topic)
    ELSE IF slides_v.k = "list"
    THEN Return(List([i \in 1..Len(slides_v.v) |->
                        NormalizeSlide(slides_v.v[i], topic).val]))
    ELSE Return(slides_v)

\* NormalizeData with lines 734-735 lost: no check for an empty collection
NormalizeData_NoEmptyCheck(data, topic) ==
    IF ~Truthy(data) THEN Return(None)
    ELSE IF In(K_SLIDES, data) = "err" THEN Raise("TypeError")
    ELSE IF In(K_SLIDES, data) = "no" THEN Return(None)
    ELSE IF data.k # "dict" THEN Raise("TypeError")
    ELSE NormalizeLoop(data.v[K_SLIDES], topic)

\* lines 731-746, run on what repair_truncated_json returned
NormalizeData(data, topic) ==
    IF ~Truthy(data) THEN Return(None)
    ELSE IF In(K_SLIDES, data) = "err" THEN Raise("TypeError")
    ELSE IF In(K_SLIDES, data) = "no" THEN Return(None)
    \* slides_data["slides"] on a str or a list: TypeError
    ELSE IF data.k # "dict" THEN Raise("TypeError")
    ELSE IF ~Truthy(data.v[K_SLIDES]) THEN Return(None)
    ELSE NormalizeLoop(data.v[K_SLIDES], topic)

\* Catches with the handler narrowed to the parse error
Catches_OnlyJSONDecodeError(type) == type = "JSONDecodeError"

\* line 747: except Exception catches every exception the body raises
Catches(type) == TRUE

(***************************************************************************)
(* The recovery scan of repair_truncated_json.                             *)
(***************************************************************************)
\* lines 616-628: the candidate text[slide_start:current_pos+1], parsed on
\* its own and accepted if it has a title; the slides list afterwards
\* FillCandidate with line 623 defaulting image_prompt to the empty text
FillCandidate_EmptyPrompt(slide_obj) ==
    LET f1 == IF K_BULLETS \in DOMAIN slide_obj THEN slide_obj
              ELSE Put(slide_obj, K_BULLETS, List(<<>>))
        f2 == IF K_IMAGE \in DOMAIN f1 THEN f1
              ELSE Put(f1, K_IMAGE, Str(<<>>))
        f3 == IF K_NOTES \in DOMAIN f2 THEN f2
              ELSE Put(f2, K_NOTES, Str(<<>>))
    IN  Dict(f3)

\* (slide_text starts with an opening brace, so a parse that succeeds
\* yields a dict)
FillCandidate(slide_obj) ==
    LET f1 == IF K_BULLETS \in DOMAIN slide_obj THEN slide_obj
              ELSE Put(slide_obj, K_BULLETS, List(<<>>))
        f2 == IF K_IMAGE \in DOMAIN f1 THEN f1
              ELSE Put(f1, K_IMAGE, f1[K_TITLE])
        f3 == IF K_NOTES \in DOMAIN f2 THEN f2
              ELSE Put(f2, K_NOTES, Str(<<>>))
    IN  Dict(f3)

\* AppendCandidate with the handler of lines 627-628 giving up: a candidate
\* that is rejected empties the list
AppendCandidate_ResetOnBad(slides, slide_text) ==
    LET r == JsonLoads(slide_text)
    IN  IF r.ok /\ In(K_TITLE, r.val) = "yes"
        THEN Append(slides, FillCandidate(r.val.v))
        ELSE <<>>

\* AppendCandidate with the record put at the front of the list
AppendCandidate_Prepend(slides, slide_text) ==
    LET r == JsonLoads(slide_text)
    IN  IF r.ok /\ In(K_TITLE, r.val) = "yes"
        THEN <<FillCandidate(r.val.v)>> \o slides
        ELSE slides

\* lines 616-628
AppendCandidate(slides, slide_text) ==
    LET r == JsonLoads(slide_text)
    IN  IF r.ok /\ In(K_TITLE, r.val) = "yes"
        THEN Append(slides, FillCandidate(r.val.v))
        ELSE slides

\* lines 633-636
ScanResult(slides) ==
    IF slides # <<>> THEN Dict([key \in {K_SLIDES} |-> List(slides)]) ELSE None

\* ScanStart with lines 594-595 lost: the bracket is looked for from the start
\* of the text whether or not the slides key occurs
ScanStart_NoKeyCheck(t) ==
    LET slides_start == Find(t, <<DQ, "S", DQ>>, 0)
        bracket_pos == Find(t, <<"[">>, IF slides_start = -1 THEN 0 ELSE slides_start)
    IN  IF bracket_pos = -1 THEN -1 ELSE bracket_pos + 1

\* lines 593-601: the position the scan starts at, -1 when recovery fails
ScanStart(t) ==
    LET slides_start == Find(t, <<DQ, "S", DQ>>, 0)
        bracket_pos == Find(t, <<"[">>, slides_start)
    IN  IF slides_start = -1 THEN -1
        ELSE IF bracket_pos = -1 THEN -1
        ELSE bracket_pos + 1

\* ScanIter with the increment of line 631 lost for a character that is no
\* brace
ScanIter_StuckOnText(t, s) ==
    LET char == t[s.current_pos + 1]
        pos == s.current_pos + 1
    IN  IF char = "{" /\ s.brace_count = 0
        THEN [s EXCEPT !.slide_start = s.current_pos, !.brace_count = 1,
                       !.current_pos = pos]
        ELSE IF char = "{"
        THEN [s EXCEPT !.brace_count = @ + 1, !.current_pos = pos]
        ELSE IF char = "}"
        THEN IF s.brace_count - 1 = 0 /\ s.slide_start # -1
             THEN [s EXCEPT !.brace_count = @ - 1,
                            !.slides = AppendCandidate(@, SubSeq(t, s.slide_start + 1,
                                                                 s.current_pos + 1)),
                            !.slide_start = -1,
                            !.current_pos = pos]
             ELSE [s EXCEPT !.brace_count = @ - 1, !.current_pos = pos]
        ELSE s

\* lines 606-631: one iteration of the while loop on the scan's locals
ScanIter(t, s) ==
    LET char == t[s.current_pos + 1]
        pos == s.current_pos + 1
    IN  IF char = "{" /\ s.brace_count = 0
        THEN [s EXCEPT !.slide_start = s.current_pos, !.brace_count = 1,
                       !.current_pos = pos]
        ELSE IF char = "{"
        THEN [s EXCEPT !.brace_count = @ + 1, !.current_pos = pos]
        ELSE IF char = "}"
        THEN IF s.brace_count - 1 = 0 /\ s.slide_start # -1
             THEN [s EXCEPT !.brace_count = @ - 1,
                            !.slides = AppendCandidate(@, SubSeq(t, s.slide_start + 1,
                                                                 s.current_pos + 1)),
                            !.slide_start = -1,
                            !.current_pos = pos]
             ELSE [s EXCEPT !.brace_count = @ - 1, !.current_pos = pos]
        ELSE [s EXCEPT !.current_pos = pos]

\* lines 605-636: the loop run to its end
RECURSIVE RunScan(_, _)
RunScan(t, s) ==
    IF s.current_pos < Len(t) THEN RunScan(t, ScanIter(t, s)) ELSE ScanResult(s.slides)

\* lines 574-636, one call run on its own
Repair(json_text) ==
    LET t == Sanitize(json_text)
        r == JsonLoads(t)
    IN  IF r.ok THEN r.val
        ELSE IF ScanStart(t) = -1 THEN None
        ELSE RunScan(t, [current_pos |-> ScanStart(t), brace_count |-> 0,
                         slide_start |-> -1, slides |-> <<>>])

\* lines 729-749, one call run on its own: what the caller gets for a text
Generate(content_text, topic) ==
    LET r == NormalizeData(Repair(content_text), topic)
    IN  IF r.exc = "" THEN r.val ELSE None

(***************************************************************************)
(* Input texts.  A JSON document is written as a tree (Str, Num, List and  *)
(* Obj nodes); Render gives its text and Denote the Python value that a    *)
(* JSON reader must produce for it.                                        *)
(***************************************************************************)
Obj(members) == [k |-> "obj", v |-> members]

RECURSIVE Render(_)
RECURSIVE RenderElems(_, _)
RECURSIVE RenderMembers(_, _)
Render(n) ==
    CASE n.k = "str" -> <<DQ>> \o n.v \o <<DQ>>
      [] n.k = "num" -> IF n.v = 0 THEN <<"0">> ELSE <<"1">>
      [] n.k = "list" -> <<"[">> \o RenderElems(n.v, 1) \o <<"]">>
      [] n.k = "obj" -> <<"{">> \o RenderMembers(n.v, 1) \o <<"}">>
RenderElems(s, i) ==
    IF i > Len(s) THEN <<>>
    ELSE Render(s[i]) \o (IF i < Len(s) THEN <<",">> ELSE <<>>) \o RenderElems(s, i + 1)
RenderMembers(s, i) ==
    IF i > Len(s) THEN <<>>
    ELSE <<DQ>> \o s[i][1] \o <<DQ, ":">> \o Render(s[i][2])
         \o (IF i < Len(s) THEN <<",">> ELSE <<>>) \o RenderMembers(s, i + 1)

RECURSIVE Denote(_)
RECURSIVE DenoteMembers(_, _, _)
Denote(n) ==
    CASE n.k = "list" -> List([i \in 1..Len(n.v) |-> Denote(n.v[i])])
      [] n.k = "obj" -> Dict(DenoteMembers(n.v, 1, <<>>))
      [] OTHER -> n
DenoteMembers(s, i, acc) ==
    IF i > Len(s) THEN acc
    ELSE DenoteMembers(s, i + 1, Put(acc, s[i][1], Denote(s[i][2])))

HasKey(n, key) == n.k = "obj" /\ \E i \in 1..Len(n.v) : n.v[i][1] = key

\* the slide records the input documents are built from
SlidePool ==
    << Obj(<< <<K_TITLE, Str(<<"A">>)>> >>),
       Obj(<< <<K_TITLE, Str(<<"Z">>)>>, <<K_BULLETS, List(<<Str(<<"A">>)>>)>>,
              <<K_IMAGE, Str(<<"A">>)>>, <<K_NOTES, Str(<<"Z">>)>> >>),
       Obj(<< <<K_BULLETS, List(<<Str(<<"A">>)>>)>> >>),
       Obj(<< <<K_TITLE, Str(<<>>)>> >>),
       Obj(<< <<K_TITLE, Str(<<"{">>)>> >>),
       Obj(<< <<K_TITLE, Str(<<"A">>)>>, <<K_BULLETS, List(<<Str(<<"}">>)>>)>> >>),
       Obj(<< <<K_TITLE, Str(<<"A">>)>>,
              <<K_BULLETS, List(<<Obj(<< <<K_TITLE, Str(<<"Z">>)>> >>)>>)>> >>) >>

\* the most records in the slides collection of an input document
MaxSlides == 2

PoolIds == 1..Len(SlidePool)
\* the records a document is cut in: the plain one, the one with a quoted
\* brace, the one with a nested record
CutIds == {1, 6, 7}
ElemSeqs == UNION {[1..n -> PoolIds] : n \in 0..MaxSlides}
Records(elems) == [i \in 1..Len(elems) |-> SlidePool[elems[i]]]

\* a second member after the slides collection, itself a list of records
ExtraMember == <<",", DQ, "Z", DQ, ":">> \o Render(List(<<SlidePool[1]>>))

\* {"slides": [ ... up to and including the opening bracket
DocHead == <<"{", DQ, "S", DQ, ":", WS, "[">>
DocText(elems, extra) ==
    DocHead \o RenderElems(Records(elems), 1) \o <<"]">>
    \o (IF extra = 1 THEN ExtraMember ELSE <<>>) \o <<"}">>

\* the document cut inside its last record, which keeps its first cut characters
TruncText(elems, last, cut) ==
    DocHead \o RenderElems(Records(elems), 1)
    \o (IF elems # <<>> THEN <<",">> ELSE <<>>)
    \o SubSeq(Render(SlidePool[last]), 1, cut)

\* no fence, a bare fence, the json fence, a fence with another language tag
Wraps == {"none", "bare", "json", "tag"}
Wrap(w, payload) ==
    CASE w = "none" -> payload
      [] w = "tag" -> <<WS>> \o FENCE \o <<"j", "s", WS>> \o payload \o <<WS>> \o FENCE
                      \o <<WS>>
      [] w = "bare" -> <<WS>> \o FENCE \o <<WS>> \o payload \o <<WS>> \o FENCE \o <<WS>>
      [] w = "json" -> <<WS>> \o FENCE_JSON \o <<WS>> \o payload \o <<WS>> \o FENCE
                       \o <<WS>>

\* a slides collection whose second candidate is no JSON and whose third has
\* no title: {"S":[{"T":"A"},{"T":},{"B":["A"]},{"T":"Z",...}]}
BadCandidateText ==
    <<"{", DQ, "S", DQ, ":", "[">> \o Render(SlidePool[1])
    \o <<",", "{", DQ, "T", DQ, ":", "}", ",">> \o Render(SlidePool[3])
    \o <<",">> \o Render(SlidePool[2]) \o <<"]", "}">>

\* a record whose title is the text } and whose bullets hold a record with a
\* title, then a cut record: {"S":[{"T":"}","B":[{"T":"Z"}]},{"T"
NestedAfterBraceText ==
    <<"{", DQ, "S", DQ, ":", "[">>
    \o Render(Obj(<< <<K_TITLE, Str(<<"}">>)>>,
                     <<K_BULLETS, List(<<Obj(<< <<K_TITLE, Str(<<"Z">>)>> >>)>>)>> >>))
    \o <<",", "{", DQ, "T", DQ>>

\* the slides key with a number for its value, a list of records under
\* another key, cut: {"S":1,"Z":[{"T":"A"},{"T"
OtherBracketText ==
    <<"{", DQ, "S", DQ, ":", "1", ",", DQ, "Z", DQ, ":", "[">>
    \o Render(SlidePool[1]) \o <<",", "{", DQ, "T", DQ>>

\* texts that are not a slides document
OtherTexts ==
    << <<"A", WS, "Z">>,
       <<>>,
       Render(Obj(<< <<<<"A">>, Num(1)>> >>)),
       Render(Num(1)),
       Render(Num(0)),
       Render(List(<<>>)),
       Render(Str(<<"A", "S">>)),
       Render(Str(<<"S">>)),
       Render(List(<<Str(<<"S">>)>>)),
       Render(Obj(<< <<K_SLIDES, Num(1)>> >>)),
       Render(Obj(<< <<K_SLIDES, Num(0)>> >>)),
       Render(Obj(<< <<K_SLIDES, Str(<<"A">>)>> >>)),
       Render(Obj(<< <<K_SLIDES, Obj(<<>>)>> >>)),
       Render(Obj(<< <<K_SLIDES, SlidePool[1]>> >>)),
       Render(Obj(<< <<K_SLIDES, Obj(<< <<<<"B", "I", "N">>, Num(1)>> >>)>> >>)),
       <<"{", DQ, "S", DQ, ":">>,
       Render(Obj(<< <<K_SLIDES, List(<<Num(1)>>)>> >>)),
       Render(Obj(<< <<K_SLIDES, List(<<SlidePool[1], Num(1)>>)>> >>)),
       Render(Obj(<< <<K_SLIDES, List(<<Str(<<"B", "I", "N">>)>>)>> >>)),
       Render(Obj(<< <<K_SLIDES, List(<<SlidePool[1], Str(<<"B", "I", "N">>)>>)>> >>)),
       Render(Obj(<< <<K_SLIDES, List(<<List(<<SlidePool[1]>>)>>)>> >>)),
       Render(Obj(<< <<<<"Z">>, List(<<SlidePool[1], SlidePool[2]>>)>> >>)),
       Render(List(<<SlidePool[1]>>)),
       <<"{", DQ, "Z", DQ, ":", "[">> \o Render(SlidePool[1]) \o <<",", "{", DQ, "T", DQ>>,
       <<"[">> \o Render(SlidePool[2]) \o <<",">>,
       <<"{", DQ, "S", DQ, ":", "[", "}", "{", DQ, "T", DQ, ":", DQ, "A", DQ, "}">>,
       BadCandidateText,
       NestedAfterBraceText,
       OtherBracketText >>

\* texts put together from whitespace, fence markers, the json tag and a
\* payload, to run the sanitizer on
Pieces == << <<WS>>, FENCE, <<"j", "s", "o", "n">>, <<"{", "}">> >>
\* the most pieces in such a text
MaxPieces == 4
RECURSIVE Concat(_)
Concat(ids) == IF ids = <<>> THEN <<>> ELSE Pieces[Head(ids)] \o Concat(Tail(ids))
PieceInputs ==
    {[kind |-> "pieces", elems |-> e, extra |-> 0, wrap |-> "none", last |-> 0, cut |-> 0] :
        e \in UNION {[1..n -> 1..Len(Pieces)] : n \in 0..MaxPieces}}

NoInput == [kind |-> "none", elems |-> <<>>, extra |-> 0, wrap |-> "none",
            last |-> 0, cut |-> 0]
DocInputs ==
    {[kind |-> "doc", elems |-> e, extra |-> x, wrap |-> w, last |-> 0, cut |-> 0] :
        e \in ElemSeqs, x \in {0, 1}, w \in Wraps}
TruncInputs ==
    UNION {{[kind |-> "trunc", elems |-> e, extra |-> 0, wrap |-> "none",
             last |-> l, cut |-> c] : e \in ElemSeqs, c \in 1..(Len(Render(SlidePool[l])) - 1)}
           : l \in CutIds}
OtherInputs ==
    {[kind |-> "other", elems |-> <<>>, extra |-> 0, wrap |-> w, last |-> i, cut |-> 0] :
        i \in 1..Len(OtherTexts), w \in {"none"}}
Inputs == DocInputs \cup TruncInputs \cup OtherInputs

RawText(inp) ==
    CASE inp.kind = "doc" -> Wrap(inp.wrap, DocText(inp.elems, inp.extra))
      [] inp.kind = "trunc" -> TruncText(inp.elems, inp.last, inp.cut)
      [] inp.kind = "other" -> OtherTexts[inp.last]
      [] inp.kind = "pieces" -> Concat(inp.elems)
      [] OTHER -> <<>>

\* the topic argument of generate_content_with_claude
Topic == Str(<<"P">>)

(***************************************************************************)
(* State: one record of locals per invocation of the pipeline.             *)
(***************************************************************************)
Procs == {1, 2}

VARIABLES input, pc, text, slides_data, current_pos, brace_count, slide_start,
          slides, result, exc,
          max_retries, attempt, responses, waited, retry_pc, retry_result,
          img_in, search_terms, img_i, img_pc, img_calls, image_data,
          ppt_in, ppt_idx, prs, ppt_pc,
          users, sessions, next_id, login_pc, login_user,
          login_result, last_op

vars == <<input, pc, text, slides_data, current_pos, brace_count, slide_start,
          slides, result, exc,
          max_retries, attempt, responses, waited, retry_pc, retry_result,
          img_in, search_terms, img_i, img_pc, img_calls, image_data,
          ppt_in, ppt_idx, prs, ppt_pc,
          users, sessions, next_id, login_pc, login_user,
          login_result, last_op>>
scanVars == <<current_pos, brace_count, slide_start, slides>>
pipeVars == <<input, pc, text, slides_data, scanVars, result, exc>>
\* the locals of generate_content_with_retry, and what its calls met
retryVars == <<max_retries, attempt, responses, waited, retry_pc, retry_result>>

\* the locals of get_topic_relevant_image, and the provider calls it made
imgVars == <<img_in, search_terms, img_i, img_pc, img_calls, image_data>>
\* the locals of create_powerpoint
pptVars == <<ppt_in, ppt_idx, prs, ppt_pc>>
\* the users and sessions tables, and the locals of each verify_user call
dbVars == <<users, sessions, next_id, login_pc, login_user,
            login_result, last_op>>

\* get_topic_relevant_image is not running
ImgIdle ==
    /\ img_in = <<>>
    /\ search_terms = <<>>
    /\ img_i = 0
    /\ img_pc = "idle"
    /\ img_calls = <<>>
    /\ image_data = "None"

\* create_powerpoint is not running
PptIdle ==
    /\ ppt_in = <<>>
    /\ ppt_idx = 0
    /\ prs = <<>>
    /\ ppt_pc = "idle"

\* the database is not in use
DbIdle ==
    /\ users = {}
    /\ sessions = <<>>
    /\ next_id = 0
    /\ login_pc = <<>>
    /\ login_user = <<>>
    /\ login_result = <<>>
    /\ last_op = <<>>

\* generate_content_with_retry is not running
RetryIdle ==
    /\ max_retries = 0
    /\ attempt = 0
    /\ responses = <<>>
    /\ waited = <<>>
    /\ retry_pc = "idle"
    /\ retry_result = None

\* the pipeline's locals at the entry of each invocation
PipeInit(inputs) ==
    /\ input \in inputs
    /\ pc = [p \in Procs |-> IF input[p].kind = "none" THEN "idle" ELSE "raw"]
    /\ text = [p \in Procs |-> RawText(input[p])]
    /\ slides_data = [p \in Procs |-> None]
    /\ current_pos = [p \in Procs |-> 0]
    /\ brace_count = [p \in Procs |-> 0]
    /\ slide_start = [p \in Procs |-> -1]
    /\ slides = [p \in Procs |-> <<>>]
    /\ result = [p \in Procs |-> None]
    /\ exc = [p \in Procs |-> ""]

InitWith(inputs) == PipeInit(inputs) /\ RetryIdle /\ ImgIdle /\ PptIdle /\ DbIdle

\* one caller
Init == InitWith({[p \in Procs |-> IF p = 1 THEN i ELSE NoInput] : i \in Inputs})

\* lines 576-584
SanitizeStep(p) ==
    /\ pc[p] = "raw"
    /\ text' = [text EXCEPT ![p] = Sanitize(text[p])]
    /\ pc' = [pc EXCEPT ![p] = "sanitized"]
    /\ UNCHANGED <<input, slides_data, scanVars, result, exc, retryVars, imgVars, pptVars, dbVars>>

\* StrictParse without the return of line 588: the parsed document is
\* dropped and the recovery scan runs on every text
StrictParse_FallThrough(p) ==
    /\ pc[p] = "sanitized"
    /\ pc' = [pc EXCEPT ![p] = "recover"]
    /\ UNCHANGED <<input, text, slides_data, scanVars, result, exc, retryVars, imgVars, pptVars, dbVars>>

\* lines 586-590
StrictParse(p) ==
    /\ pc[p] = "sanitized"
    /\ LET r == JsonLoads(text[p])
       IN  IF r.ok
           THEN /\ slides_data' = [slides_data EXCEPT ![p] = r.val]
                /\ pc' = [pc EXCEPT ![p] = "returned"]
           ELSE /\ pc' = [pc EXCEPT ![p] = "recover"]
                /\ UNCHANGED slides_data
    /\ UNCHANGED <<input, text, scanVars, result, exc, retryVars, imgVars, pptVars, dbVars>>

\* Frame with slides a list shared by every invocation
Frame_Shared(p) == CHOOSE q \in Procs : \A r \in Procs : q <= r

\* the invocation whose slides list invocation p uses: slides = [] at line 592
\* binds a fresh list local to the call
Frame(p) == p

\* lines 592-603
Locate(p) ==
    /\ pc[p] = "recover"
    /\ IF ScanStart(text[p]) = -1
       THEN /\ slides_data' = [slides_data EXCEPT ![p] = None]
            /\ pc' = [pc EXCEPT ![p] = "returned"]
            /\ UNCHANGED scanVars
       ELSE /\ slides' = [slides EXCEPT ![Frame(p)] = <<>>]
            /\ current_pos' = [current_pos EXCEPT ![p] = ScanStart(text[p])]
            /\ brace_count' = [brace_count EXCEPT ![p] = 0]
            /\ slide_start' = [slide_start EXCEPT ![p] = -1]
            /\ pc' = [pc EXCEPT ![p] = "scan"]
            /\ UNCHANGED slides_data
    /\ UNCHANGED <<input, text, result, exc, retryVars, imgVars, pptVars, dbVars>>

\* lines 605-631: one iteration of the while loop
ScanStep(p) ==
    /\ pc[p] = "scan"
    /\ current_pos[p] < Len(text[p])
    /\ LET s == ScanIter(text[p], [current_pos |-> current_pos[p],
                                   brace_count |-> brace_count[p],
                                   slide_start |-> slide_start[p],
                                   slides |-> slides[Frame(p)]])
       IN  /\ current_pos' = [current_pos EXCEPT ![p] = s.current_pos]
           /\ brace_count' = [brace_count EXCEPT ![p] = s.brace_count]
           /\ slide_start' = [slide_start EXCEPT ![p] = s.slide_start]
           /\ slides' = [slides EXCEPT ![Frame(p)] = s.slides]
    /\ UNCHANGED <<input, pc, text, slides_data, result, exc, retryVars, imgVars, pptVars, dbVars>>

\* lines 605 (loop exit) and 633-636
ScanEnd(p) ==
    /\ pc[p] = "scan"
    /\ ~(current_pos[p] < Len(text[p]))
    /\ slides_data' = [slides_data EXCEPT ![p] = ScanResult(slides[Frame(p)])]
    /\ pc' = [pc EXCEPT ![p] = "returned"]
    /\ UNCHANGED <<input, text, scanVars, result, exc, retryVars, imgVars, pptVars, dbVars>>

\* lines 729-746: the try body from the return of repair_truncated_json on
Normalize(p) ==
    /\ pc[p] = "returned"
    /\ LET r == NormalizeData(slides_data[p], Topic)
       IN  IF r.exc = ""
           THEN /\ result' = [result EXCEPT ![p] = r.val]
                /\ pc' = [pc EXCEPT ![p] = "done"]
                /\ UNCHANGED exc
           ELSE /\ exc' = [exc EXCEPT ![p] = r.exc]
                /\ pc' = [pc EXCEPT ![p] = "raised"]
                /\ UNCHANGED result
    /\ UNCHANGED <<input, text, slides_data, scanVars, retryVars, imgVars, pptVars, dbVars>>

\* lines 747-749: the handler returns None; an exception it does not catch
\* leaves generate_content_with_claude
Except(p) ==
    /\ pc[p] = "raised"
    /\ IF Catches(exc[p])
       THEN /\ result' = [result EXCEPT ![p] = None]
            /\ pc' = [pc EXCEPT ![p] = "done"]
       ELSE /\ pc' = [pc EXCEPT ![p] = "propagated"]
            /\ UNCHANGED result
    /\ UNCHANGED <<input, text, slides_data, scanVars, exc, retryVars, imgVars, pptVars, dbVars>>

\* the sanitizer run once more, on its own output
Resanitize(p) ==
    /\ pc[p] = "sanitized"
    /\ text' = [text EXCEPT ![p] = Sanitize(text[p])]
    /\ pc' = [pc EXCEPT ![p] = "resanitized"]
    /\ UNCHANGED <<input, slides_data, scanVars, result, exc, retryVars, imgVars, pptVars, dbVars>>

Next ==
    \E p \in Procs :
        \/ SanitizeStep(p)
        \/ StrictParse(p)
        \/ Locate(p)
        \/ ScanStep(p)
        \/ ScanEnd(p)
        \/ Normalize(p)
        \/ Except(p)

Spec == Init /\ [][Next]_vars

(***************************************************************************)
(* Two callers, each with a text of its own, their steps interleaved.      *)
(***************************************************************************)
\* the most records in a document of the two-caller specification
PairMaxSlides == 1

PairPool == {i \in PoolIds : SlidePool[i] \in {SlidePool[1], SlidePool[3]}}
PairElemSeqs == UNION {[1..n -> PairPool] : n \in 0..PairMaxSlides}
PairInputs ==
    {[kind |-> "doc", elems |-> e, extra |-> 0, wrap |-> w, last |-> 0, cut |-> 0] :
        e \in PairElemSeqs, w \in Wraps}
    \cup
    {[kind |-> "trunc", elems |-> e, extra |-> 0, wrap |-> "none",
      last |-> CHOOSE l \in PairPool : SlidePool[l] = SlidePool[1],
      cut |-> Len(Render(SlidePool[1])) - 1] : e \in PairElemSeqs}
    \cup
    {i \in OtherInputs :
        OtherTexts[i.last] = Render(Obj(<< <<K_SLIDES, List(<<SlidePool[1], Num(1)>>)>> >>))}

InitPair == InitWith([Procs -> PairInputs])
SpecPair == InitPair /\ [][Next]_vars

(***************************************************************************)
(* The sanitizer alone, applied to a text and then to its own output.      *)
(***************************************************************************)
InitSanitize ==
    InitWith({[p \in Procs |-> IF p = 1 THEN i ELSE NoInput] : i \in PieceInputs})
NextSanitize == \E p \in Procs : SanitizeStep(p) \/ Resanitize(p)
SpecSanitize == InitSanitize /\ [][NextSanitize]_vars

(***************************************************************************)
(* generate_content_with_retry, lines 751-764.  Each call of               *)
(* generate_content_with_claude meets one response of the content          *)
(* provider and is run to its end in one step.                             *)
(***************************************************************************)
\* what the provider does at one call: answers 200 with a slides document,
\* with a document of no slides or with prose, answers 429 (rate limit), or
\* the request raises
ResponseKinds == {"slides", "empty", "prose", "rate_limit", "raises"}
RATE_LIMIT_MSG == "Rate limit exceeded"
Response(kind) ==
    CASE kind = "slides" ->
            [raises |-> "", status |-> 200, content |-> DocText(<<1>>, 0)]
      [] kind = "empty" ->
            [raises |-> "", status |-> 200, content |-> DocText(<<>>, 0)]
      [] kind = "prose" ->
            [raises |-> "", status |-> 200, content |-> <<"A", WS, "Z">>]
      [] kind = "rate_limit" ->
            [raises |-> "", status |-> 429, content |-> <<>>]
      [] kind = "raises" ->
            [raises |-> RATE_LIMIT_MSG, status |-> 0, content |-> <<>>]

\* lines 640-749: generate_content_with_claude on one response; exc is the
\* message of the exception that leaves it, "" when it returns
CallClaude(resp, topic) ==
    IF resp.raises # ""
    THEN IF Catches("RequestException") THEN Return(None) ELSE Raise(resp.raises)
    ELSE IF resp.status = 200 THEN Return(Generate(resp.content, topic))
    ELSE Return(None)

\* InRange with one pass too many
InRange_OffByOne(a, n) == a <= n

\* line 753: attempt in range(max_retries)
InRange(a, n) == a < n

\* line 759: "Rate limit" in str(e)
IsRateLimit(msg) == msg = RATE_LIMIT_MSG

\* line 761
WaitTime(a) == (a + 1) * 5

\* the default of the max_retries parameter
DefaultMaxRetries == 3
\* the largest max_retries a caller passes
MaxRetries == 3

\* lines 751-753: entry of generate_content_with_retry
InitRetry ==
    /\ PipeInit({[p \in Procs |-> NoInput]})
    /\ max_retries \in 0..MaxRetries
    /\ attempt = 0
    /\ responses = <<>>
    /\ waited = <<>>
    /\ retry_pc = "loop"
    /\ retry_result = None
    /\ ImgIdle /\ PptIdle /\ DbIdle

\* lines 753-763: one pass of the for loop, the call of
\* generate_content_with_claude run to its end
RetryAttempt ==
    /\ retry_pc = "loop"
    /\ InRange(attempt, max_retries)
    /\ \E kind \in ResponseKinds :
          LET r == CallClaude(Response(kind), Topic)
          IN  /\ responses' = Append(responses, kind)
              /\ IF r.exc = ""
                 THEN IF Truthy(r.val)
                      THEN /\ retry_result' = r.val
                           /\ retry_pc' = "returned"
                           /\ UNCHANGED <<attempt, waited>>
                      ELSE /\ attempt' = attempt + 1
                           /\ UNCHANGED <<retry_result, retry_pc, waited>>
                 ELSE /\ waited' =
                           IF IsRateLimit(r.exc) /\ attempt < max_retries - 1
                           THEN Append(waited, [attempt |-> attempt,
                                                secs |-> WaitTime(attempt)])
                           ELSE waited
                      /\ attempt' = attempt + 1
                      /\ UNCHANGED <<retry_result, retry_pc>>
    /\ UNCHANGED <<max_retries, pipeVars, imgVars, pptVars, dbVars>>

\* line 764: the loop is over
RetryExhausted ==
    /\ retry_pc = "loop"
    /\ ~InRange(attempt, max_retries)
    /\ retry_result' = None
    /\ retry_pc' = "returned"
    /\ UNCHANGED <<max_retries, attempt, responses, waited, pipeVars, imgVars, pptVars, dbVars>>

NextRetry == RetryAttempt \/ RetryExhausted
SpecRetry == InitRetry /\ [][NextRetry]_vars

(***************************************************************************)
(* The recovery part of repair_truncated_json, lines 592-636, run on the   *)
(* sanitized text of a well-formed document, and the normalization of      *)
(* what it returns.                                                        *)
(***************************************************************************)
WellFormedInputs == {i \in DocInputs : i.wrap \in {"none", "bare", "json"}}
InitScanOnly ==
    /\ input \in {[p \in Procs |-> IF p = 1 THEN i ELSE NoInput] : i \in WellFormedInputs}
    /\ pc = [p \in Procs |-> IF input[p].kind = "none" THEN "idle" ELSE "recover"]
    /\ text = [p \in Procs |-> Sanitize(RawText(input[p]))]
    /\ slides_data = [p \in Procs |-> None]
    /\ current_pos = [p \in Procs |-> 0]
    /\ brace_count = [p \in Procs |-> 0]
    /\ slide_start = [p \in Procs |-> -1]
    /\ slides = [p \in Procs |-> <<>>]
    /\ result = [p \in Procs |-> None]
    /\ exc = [p \in Procs |-> ""]
    /\ RetryIdle /\ ImgIdle /\ PptIdle /\ DbIdle
NextScanOnly ==
    \E p \in Procs :
        \/ Locate(p)
        \/ ScanStep(p)
        \/ ScanEnd(p)
        \/ Normalize(p)
SpecScanOnly == InitScanOnly /\ [][NextScanOnly]_vars

(***************************************************************************)
(* What the properties below speak of.                                     *)
(***************************************************************************)
Done(p) == pc[p] = "done"
Titled(n) == HasKey(n, K_TITLE)
AllTitled(elems) == \A i \in 1..Len(elems) : Titled(SlidePool[elems[i]])

\* a brace inside one of the string literals of a document
RECURSIVE QuotedBrace(_)
QuotedBrace(n) ==
    CASE n.k = "str" -> \E i \in 1..Len(n.v) : n.v[i] \in {"{", "}"}
      [] n.k = "list" -> \E i \in 1..Len(n.v) : QuotedBrace(n.v[i])
      [] n.k = "obj" -> \E i \in 1..Len(n.v) :
                            QuotedBrace(Str(n.v[i][1])) \/ QuotedBrace(n.v[i][2])
      [] OTHER -> FALSE

\* a record with the defaults of the data model: bullets empty, image_prompt
\* the title, speaker_notes the empty text
WithDefaults(f) ==
    [key \in (DOMAIN f) \cup {K_BULLETS, K_IMAGE, K_NOTES} |->
        IF key \in DOMAIN f THEN f[key]
        ELSE IF key = K_BULLETS THEN List(<<>>)
        ELSE IF key = K_IMAGE THEN f[K_TITLE]
        ELSE Str(<<>>)]
ExpectedSlides(elems) ==
    List([i \in 1..Len(elems) |-> Dict(WithDefaults(Denote(SlidePool[elems[i]]).v))])

\* the text is a well-formed document once its fence is stripped
WellFormed(inp) == inp.kind = "doc" /\ inp.wrap \in {"none", "bare", "json"}

\* the scan ran in invocation p
Scanned(p) == current_pos[p] > 0
NonEmpty(x) == x.k \in {"list", "dict"} /\ Truthy(x)

\* C1: a slides document of N >= 1 complete records, each with a title,
\* followed by a record cut before its closing brace yields exactly the first
\* N records, in order, with defaults filled.
C1_TruncationSalvage ==
    \A p \in Procs :
        (Done(p) /\ input[p].kind = "trunc" /\ Len(input[p].elems) >= 1
         /\ AllTitled(input[p].elems))
        => result[p] = ExpectedSlides(input[p].elems)

\* the same when no string literal of the text holds a brace
C1_SalvageWithoutQuotedBraces ==
    \A p \in Procs :
        (Done(p) /\ input[p].kind = "trunc" /\ Len(input[p].elems) >= 1
         /\ AllTitled(input[p].elems)
         /\ \A i \in 1..Len(input[p].elems) : ~QuotedBrace(SlidePool[input[p].elems[i]])
         /\ ~QuotedBrace(SlidePool[input[p].last]))
        => result[p] = ExpectedSlides(input[p].elems)

\* C2: a complete valid document with a non-empty slides collection whose
\* records all have a title comes back whole: every record, in order, its
\* fields unchanged, the missing ones filled by the defaults.
C2_RoundTrip ==
    \A p \in Procs :
        (Done(p) /\ input[p].kind = "doc" /\ input[p].wrap = "none"
         /\ Len(input[p].elems) >= 1 /\ AllTitled(input[p].elems))
        => result[p] = ExpectedSlides(input[p].elems)
C2_Witness ==
    /\ Done(1) /\ input[1].kind = "doc" /\ input[1].wrap = "none"
    /\ input[1].elems = <<2, 1>> /\ input[1].extra = 1
    /\ result[1].k = "list" /\ Len(result[1].v) = 2

\* C3: no record without a title key is in the returned slide sequence.
C3_NoUntitledRecord ==
    \A p \in Procs :
        (Done(p) /\ result[p].k = "list")
        => \A i \in 1..Len(result[p].v) :
              result[p].v[i].k = "dict" => K_TITLE \in DOMAIN result[p].v[i].v

\* C4: a text in which the slides key does not occur ends in None.
C4_NoSlidesKeyFails ==
    \A p \in Procs :
        (pc[p] \in {"done", "propagated"}
         /\ Find(RawText(input[p]), <<DQ, "S", DQ>>, 0) = -1)
        => (Done(p) /\ result[p] = None)
C4_Witness ==
    /\ Done(1) /\ Scanned(1) = FALSE /\ slides_data[1] = None
    /\ RawText(input[1]) = <<"{", DQ, "Z", DQ, ":", "[">> \o Render(SlidePool[1])
                            \o <<",", "{", DQ, "T", DQ>>
    /\ Find(RawText(input[1]), <<DQ, "S", DQ>>, 0) = -1

TitleOnly == SlidePool[1]
TitleOnlyFilled ==
    Dict([key \in {K_TITLE, K_BULLETS, K_IMAGE, K_NOTES} |->
            IF key = K_TITLE \/ key = K_IMAGE THEN Str(<<"A">>)
            ELSE IF key = K_BULLETS THEN List(<<>>)
            ELSE Str(<<>>)])

\* the records of the input reach the output one to one: the strict parse of
\* a well-formed document, or the scan of a cut document whose records all
\* have a title and hold no quoted brace
OneToOne(inp) ==
    \/ WellFormed(inp)
    \/ /\ inp.kind = "trunc"
       /\ AllTitled(inp.elems)
       /\ \A i \in 1..Len(inp.elems) : ~QuotedBrace(SlidePool[inp.elems[i]])
       /\ ~QuotedBrace(SlidePool[inp.last])

\* C7: a record that supplies only a title comes out with bullets empty,
\* image_prompt equal to its title and speaker_notes the empty text, on the
\* strict path and on the recovery path.
C7_DefaultFilling ==
    \A p \in Procs :
        (Done(p) /\ OneToOne(input[p]) /\ result[p].k = "list")
        => \A i \in 1..Len(input[p].elems) :
              SlidePool[input[p].elems[i]] = TitleOnly
              => result[p].v[i] = TitleOnlyFilled
C7_Witness ==
    /\ Done(1) /\ Scanned(1) /\ input[1].kind = "trunc"
    /\ input[1].elems = <<2, 1>>
    /\ result[1].k = "list" /\ Len(result[1].v) = 2
    /\ result[1].v[2] = TitleOnlyFilled

\* C8: every record of a slide sequence returned as success has a title that
\* is a non-empty text.
C8_TitleNonEmpty ==
    \A p \in Procs :
        (Done(p) /\ result[p].k = "list")
        => \A i \in 1..Len(result[p].v) :
              /\ result[p].v[i].k = "dict"
              /\ K_TITLE \in DOMAIN result[p].v[i].v
              /\ result[p].v[i].v[K_TITLE].k = "str"
              /\ result[p].v[i].v[K_TITLE].v # <<>>

\* the same for the records the recovery scan accepts: present, but possibly
\* empty
C8_ScanTitlePresent ==
    \A p \in Procs :
        \A i \in 1..Len(slides[p]) : K_TITLE \in DOMAIN slides[p][i].v

Fenced(p, q, w) ==
    /\ input[p].kind = "doc" /\ input[p].wrap = "none"
    /\ input[q] = [input[p] EXCEPT !.wrap = w]

C10_FunctionOfText ==
    /\ \A p \in Procs : Done(p) => result[p] = Generate(RawText(input[p]), Topic)
    /\ \A p, q \in Procs :
          (Done(p) /\ Done(q) /\ RawText(input[p]) = RawText(input[q]))
          => result[p] = result[q]
C10_Witness ==
    /\ Done(1) /\ Done(2) /\ Scanned(1) /\ Scanned(2)
    /\ input[1].kind = "trunc" /\ input[2].kind = "doc" /\ input[2].wrap = "tag"
    /\ result[1] # None /\ result[2] = None

\* the recovery scan ran on a text whose complete records are input.elems: a
\* document cut inside a further record, or a whole document behind a fence
\* tag that stays in the text
ScannedWhole(inp) ==
    \/ inp.kind = "trunc" /\ ~QuotedBrace(SlidePool[inp.last])
    \/ inp.kind = "doc" /\ inp.wrap = "tag" /\ inp.extra = 0

\* C11: a brace inside a quoted string changes no record boundary of the
\* recovery scan: when every complete record has a title and some hold a
\* brace inside a string, each complete record is recovered whole, in order.
C11_QuotedBraceKeepsBoundaries ==
    \A p \in Procs :
        (Done(p) /\ Scanned(p) /\ ScannedWhole(input[p])
         /\ AllTitled(input[p].elems)
         /\ \E i \in 1..Len(input[p].elems) : QuotedBrace(SlidePool[input[p].elems[i]]))
        => result[p] = ExpectedSlides(input[p].elems)

\* the recovery part of repair_truncated_json is running or has run
Recovering(p) == pc[p] \in {"recover", "scan"} \/ Scanned(p)

\* a scanning or scanned run has a sanitized text that does not parse, and a
\* text that parses is handed to normalization as parsed
C12_ScanOnlyAfterFailure ==
    \A p \in Procs :
        /\ Recovering(p) => ~JsonLoads(text[p]).ok
        /\ (pc[p] \in {"returned", "raised", "done"} /\ JsonLoads(text[p]).ok)
           => (~Recovering(p) /\ slides_data[p] = JsonLoads(text[p]).val)

\* the moves of the state machine: raw text, sanitized, then parsed or
\* recovering (failed at once, or scanned), then normalized or rejected
C12_Edges ==
    {<<"raw", "sanitized">>, <<"sanitized", "returned">>, <<"sanitized", "recover">>,
     <<"recover", "returned">>, <<"recover", "scan">>, <<"scan", "returned">>,
     <<"returned", "done">>, <<"returned", "raised">>, <<"raised", "done">>}

C12_Move(p) ==
    /\ pc'[p] = pc[p] \/ <<pc[p], pc'[p]>> \in C12_Edges
    /\ (pc[p] = "sanitized" /\ pc'[p] # pc[p] /\ WellFormed(input[p]))
       => (pc'[p] = "returned" /\ slides_data'[p].k = "dict")
    /\ (pc[p] = "sanitized" /\ pc'[p] # pc[p] /\ input[p].kind = "trunc")
       => (pc'[p] = "recover" /\ slides_data'[p] = slides_data[p])
    /\ current_pos'[p] # current_pos[p] => (pc[p] \in {"recover", "scan"} /\ pc'[p] = "scan")
    /\ (Done(p)' /\ WellFormed(input[p]))
       => (~Recovering(p)' /\ (input[p].elems = <<>> => result'[p] = None))
    /\ Done(p)' => (result'[p] = None \/ NonEmpty(result'[p]))
    /\ Done(p) => (Done(p)' /\ result'[p] = result[p])

ClosesCandidate(p) ==
    /\ pc[p] = "scan"
    /\ current_pos[p] < Len(text[p])
    /\ current_pos'[p] = current_pos[p] + 1
    /\ text[p][current_pos[p] + 1] = "}"
    /\ brace_count[p] = 1
    /\ slide_start[p] # -1
Candidate(p) == SubSeq(text[p], slide_start[p] + 1, current_pos[p] + 1)
IsPrefix(s, t) == Len(s) <= Len(t) /\ SubSeq(t, 1, Len(s)) = s

C13_Step(p) ==
    ClosesCandidate(p) =>
        LET r == JsonLoads(Candidate(p))
        IN  /\ pc'[p] = "scan"
            /\ IsPrefix(slides[p], slides'[p])
            /\ IF r.ok /\ r.val.k = "dict" /\ K_TITLE \in DOMAIN r.val.v
               THEN /\ Len(slides'[p]) = Len(slides[p]) + 1
                    /\ slides'[p][Len(slides'[p])].v[K_TITLE] = r.val.v[K_TITLE]
               ELSE slides'[p] = slides[p]

\* C13: a candidate that does not parse or has no title is dropped and the
\* scan goes on: the records accepted before it stay, and a candidate that
\* parses and has a title is accepted whatever was dropped before it.
C13_DiscardKeepsScanning == [][\A p \in Procs : C13_Step(p)]_vars
C13_Witness ==
    /\ Done(1) /\ Scanned(1) /\ RawText(input[1]) = BadCandidateText
    /\ result[1] = ExpectedSlides(<<1, 2>>)

\* the scan of invocation p leaves the accepted records where they are and
\* adds one only at the end, on a closing brace
C14_Step(p) ==
    pc[p] = "scan" =>
        /\ IsPrefix(slides[p], slides'[p])
        /\ Len(slides'[p]) <= Len(slides[p]) + 1
        /\ slides'[p] # slides[p] => ClosesCandidate(p)
\* the records of the input come out in the order of the text
C14_InOrder(p) ==
    (Done(p) /\ OneToOne(input[p]) /\ AllTitled(input[p].elems)
     /\ Len(input[p].elems) >= 1)
    => result[p] = ExpectedSlides(input[p].elems)

\* C14: the returned records are in the order of their objects in the text,
\* on the strict path and on the recovery path; the scan adds an accepted
\* record at the end of the list when it scans its closing brace, and never
\* moves or removes a record accepted before.
C14_OrderPreserved == [][\A p \in Procs : C14_Step(p) /\ C14_InOrder(p)']_vars
C14_Witness ==
    /\ Done(1) /\ Scanned(1) /\ input[1].kind = "trunc" /\ input[1].elems = <<1, 2>>
    /\ ~QuotedBrace(SlidePool[input[1].last])
    /\ result[1] = ExpectedSlides(<<1, 2>>) /\ result[1] # ExpectedSlides(<<2, 1>>)

\* the record with a record nested in its bullets, {"T":"A","B":[{"T":"Z"}]},
\* and what the scan would make of the nested {"T":"Z"} taken on its own
HasNested(i) == SlidePool[i] = SlidePool[7]
NestedAlone == Dict(WithDefaults([key \in {K_TITLE} |-> Str(<<"Z">>)]))

C15_Nested(p) ==
    /\ \A i \in 1..Len(slides[p]) : slides[p][i] # NestedAlone
    /\ (Done(p) /\ Scanned(p) /\ ScannedWhole(input[p]) /\ AllTitled(input[p].elems))
       => \A i \in 1..Len(input[p].elems) :
             HasNested(input[p].elems[i])
             => /\ result[p].k = "list"
                /\ \E j \in 1..Len(result[p].v) :
                      result[p].v[j] = ExpectedSlides(<<input[p].elems[i]>>).v[1]

\* C15: a slide object that holds nested objects is one candidate, from its
\* own opening brace to the matching closing brace, and a nested object is
\* never a record of the scan, even when it has a title.
C15_NestedTolerated == \A p \in Procs : C15_Nested(p)

\* the same for the texts none of whose string literals holds a brace
C15_NestedWithoutQuotedBraces ==
    \A p \in Procs :
        (input[p].kind \in {"doc", "trunc"}
         /\ \A i \in 1..Len(input[p].elems) : ~QuotedBrace(SlidePool[input[p].elems[i]])
         /\ (input[p].kind = "trunc" => ~QuotedBrace(SlidePool[input[p].last])))
        => C15_Nested(p)

\* the index of the first character of t at or after index i that is no
\* whitespace, Len(t) + 1 when there is none
RECURSIVE NextNonWs(_, _)
NextNonWs(t, i) == IF i <= Len(t) /\ t[i] = WS THEN NextNonWs(t, i + 1) ELSE i

\* the position of the bracket that opens the value of the first slides key
\* of t, -1 when the key has no list for its value
ValueBracket(t) ==
    LET k == Find(t, <<DQ, "S", DQ>>, 0)
        c == NextNonWs(t, k + 4)
        b == NextNonWs(t, c + 1)
    IN  IF k # -1 /\ c <= Len(t) /\ t[c] = ":" /\ b <= Len(t) /\ t[b] = "["
        THEN b - 1
        ELSE -1

\* no bracket follows the first slides key of t
NoBracketAfterKey(t) ==
    LET k == Find(t, <<DQ, "S", DQ>>, 0)
    IN  k # -1 /\ \A i \in (k + 1)..Len(t) : t[i] # "["

\* recovery stops with None when no bracket follows the key
C16_FailsWithoutBracket(p) ==
    (pc[p] = "recover" /\ pc'[p] # "recover" /\ NoBracketAfterKey(text[p]))
    => (pc'[p] = "returned" /\ slides_data'[p] = None /\ ~Scanned(p)')

\* C16: recovery fails when no [ follows the first slides key; otherwise the
\* scan starts right after the bracket that opens the value of that key, not
\* after another bracket further on.
C16_ScanStartsAtSlidesValue ==
    [][\A p \in Procs :
          /\ C16_FailsWithoutBracket(p)
          /\ (pc[p] = "recover" /\ pc'[p] = "scan")
             => (ValueBracket(text[p]) # -1
                 /\ current_pos'[p] = ValueBracket(text[p]) + 1)]_vars

\* what holds instead: when the value of the key is a list, the scan starts
\* right after its bracket
C16_ScanStartsWhenValueIsList ==
    [][\A p \in Procs :
          /\ C16_FailsWithoutBracket(p)
          /\ (pc[p] = "recover" /\ pc'[p] # "recover" /\ ValueBracket(text[p]) # -1)
             => (pc'[p] = "scan" /\ current_pos'[p] = ValueBracket(text[p]) + 1)]_vars

\* a step of the scan of invocation p moves one character to the right
C17_StepsRight ==
    [][\A p \in Procs :
          (pc[p] = "scan" /\ pc'[p] = "scan" /\ scanVars' # scanVars)
          => (current_pos'[p] = current_pos[p] + 1
              /\ current_pos'[p] <= Len(text[p]))]_vars

\* C17: the scan ends on every text: wherever the loop stands, the position
\* is not past the end of the text and one more pass of the loop body moves
\* it right by exactly one character, so the characters left to scan get
\* fewer with every pass until the loop ends.
C17_ScanTerminates ==
    \A p \in Procs :
        pc[p] = "scan" =>
            /\ ScanStart(text[p]) <= current_pos[p]
            /\ current_pos[p] <= Len(text[p])
            /\ current_pos[p] < Len(text[p])
               => ScanIter(text[p], [current_pos |-> current_pos[p],
                                     brace_count |-> brace_count[p],
                                     slide_start |-> slide_start[p],
                                     slides |-> slides[p]]).current_pos
                  = current_pos[p] + 1
C17_Witness ==
    /\ pc[1] = "returned" /\ Scanned(1) /\ current_pos[1] = Len(text[1])
    /\ input[1].kind = "trunc" /\ input[1].elems = <<7, 6>> /\ Len(slides[1]) = 1

\* the sanitizer applied to the sanitized text of invocation p left it as it was
Idempotent(p) == pc[p] = "resanitized" => text[p] = Sanitize(RawText(input[p]))

\* C18 as stated: sanitize(sanitize(t)) = sanitize(t) for every text t.
C18_SanitizeIdempotent == \A p \in Procs : Idempotent(p)

\* C18 amended: the same for every text t whose sanitized text does not
\* itself begin or end with a fence marker.
C18_IdempotentWhenNoFenceLeft ==
    \A p \in Procs :
        (~StartsWith(Sanitize(RawText(input[p])), FENCE)
         /\ ~EndsWith(Sanitize(RawText(input[p])), FENCE))
        => Idempotent(p)
C18_Witness ==
    /\ pc[1] = "resanitized"
    /\ RawText(input[1]) = FENCE_JSON \o <<"{", "}">> \o FENCE
    /\ text[1] = <<"{", "}">>

\* a call that met this response gave no slides
Fails(kind) == kind # "slides"
\* what the call that met the slides response returns
SlidesOfResponse == List(<<TitleOnlyFilled>>)

\* C19: generate_content_with_retry calls the generator at most max_retries
\* times, makes no call after one that gave slides and returns the slides of
\* that call, and returns None only when max_retries calls have all failed.
C19_BoundedRetry ==
    /\ Len(responses) <= max_retries
    /\ \A i \in 1..(Len(responses) - 1) : Fails(responses[i])
    /\ retry_pc = "loop" => (retry_result = None /\ attempt = Len(responses))
    /\ retry_pc = "returned" =>
          IF \E i \in 1..Len(responses) : ~Fails(responses[i])
          THEN retry_result = SlidesOfResponse
          ELSE retry_result = None /\ Len(responses) = max_retries
C19_Witness ==
    /\ retry_pc = "returned" /\ max_retries = DefaultMaxRetries
    /\ responses = <<"rate_limit", "empty", "slides">>
    /\ retry_result = SlidesOfResponse

\* the call of pass i (counted from 1) failed on a rate limit
RateLimited(i) == responses[i] \in {"rate_limit", "raises"}

\* C20: after a call that failed on a rate-limit error the wrapper waits
\* (attempt + 1) * 5 seconds before the next call, and it does not wait after
\* the last call.
C20_WaitsOnRateLimit ==
    /\ \A i \in 1..Len(responses) :
          (RateLimited(i) /\ i < max_retries /\ (retry_pc = "returned" \/ attempt >= i))
          => \E j \in 1..Len(waited) :
                waited[j] = [attempt |-> i - 1, secs |-> i * 5]
    /\ \A j \in 1..Len(waited) : waited[j].attempt < max_retries - 1

\* what the strict parse of the text of input inp, normalized, comes to
StrictOutcome(inp) ==
    LET r == NormalizeData(JsonLoads(Sanitize(RawText(inp))).val, Topic)
    IN  IF r.exc = "" THEN r.val ELSE None

\* C21: on a well-formed document whose slides collection holds only records
\* with a title, the recovery scan and the strict parse give the same slide
\* records, in order, once the defaults are filled.
C21_ScanAgreesWithStrictParse ==
    \A p \in Procs :
        (Done(p) /\ Scanned(p) /\ WellFormed(input[p]) /\ AllTitled(input[p].elems))
        => result[p] = StrictOutcome(input[p])

\* the same for the documents with no brace inside a string literal and
\* nothing after the slides collection
C21_AgreesOnPlainDocuments ==
    \A p \in Procs :
        (Done(p) /\ Scanned(p) /\ WellFormed(input[p]) /\ AllTitled(input[p].elems)
         /\ input[p].extra = 0
         /\ \A i \in 1..Len(input[p].elems) : ~QuotedBrace(SlidePool[input[p].elems[i]]))
        => (result[p] = StrictOutcome(input[p])
            /\ (input[p].elems # <<>> => result[p] = ExpectedSlides(input[p].elems)))

\* record r of the scan is what the scan makes of a record of the slides
\* collection of input inp
FromCollection(r, inp) ==
    \E i \in 1..Len(inp.elems) :
        /\ Titled(SlidePool[inp.elems[i]])
        /\ r = ExpectedSlides(<<inp.elems[i]>>).v[1]

\* C22: every record the recovery scan emits comes from an object inside the
\* slides collection; an object after the closing bracket of the collection
\* is never emitted.
C22_OnlyFromCollection ==
    \A p \in Procs :
        input[p].kind \in {"doc", "trunc"}
        => \A j \in 1..Len(slides[p]) : FromCollection(slides[p][j], input[p])

\* the same for the texts in which no object follows the collection and no
\* string literal holds a brace
C22_OnlyFromCollectionWhenLast ==
    \A p \in Procs :
        (input[p].kind \in {"doc", "trunc"} /\ input[p].extra = 0
         /\ \A i \in 1..Len(input[p].elems) : ~QuotedBrace(SlidePool[input[p].elems[i]])
         /\ (input[p].kind = "trunc" => ~QuotedBrace(SlidePool[input[p].last])))
        => \A j \in 1..Len(slides[p]) : FromCollection(slides[p][j], input[p])

\* C28: the depth counter of the scan is never negative.
C28_DepthNeverNegative == \A p \in Procs : brace_count[p] >= 0


(***************************************************************************)
(* generate_topic_search_terms, lines 414-438, and get_topic_relevant_image,*)
(* lines 535-568.  Strings are sequences of characters; a provider call     *)
(* answers with an image or with nothing, whichever the provider likes.     *)
(***************************************************************************)
\* str.lower on the letters used here
LowerChar(c) == CASE c = "A" -> "a" [] c = "B" -> "b" [] OTHER -> c
Lower(t) == [k \in 1..Len(t) |-> LowerChar(t[k])]

\* lines 432-436: keep a term unless it is blank or its lowered, stripped
\* form was seen before
RECURSIVE Unique(_, _, _)
Unique(terms, seen, acc) ==
    IF terms = <<>> THEN acc
    ELSE LET term == Head(terms)
             lower == Strip(Lower(term))
         IN  IF lower # <<>> /\ lower \notin seen
             THEN Unique(Tail(terms), seen \cup {lower}, Append(acc, term))
             ELSE Unique(Tail(terms), seen, acc)

\* lines 414-438
generate_topic_search_terms(main_topic, slide_title, image_prompt) ==
    LET t1 == IF image_prompt # <<>> /\ Strip(image_prompt) # <<>>
              THEN <<Strip(image_prompt)>> ELSE <<>>
        t2 == IF main_topic # <<>> /\ slide_title # <<>>
              THEN <<main_topic \o <<WS>> \o slide_title>> ELSE <<>>
        t3 == IF slide_title # <<>> THEN <<slide_title>> ELSE <<>>
        t4 == IF main_topic # <<>> THEN <<main_topic>> ELSE <<>>
    IN  Unique(t1 \o t2 \o t3 \o t4, {}, <<>>)

\* str.split()[0]: the first word, <<>> when there is none
RECURSIVE UpToWs(_)
UpToWs(t) == IF t = <<>> \/ Head(t) = WS THEN <<>> ELSE <<Head(t)>> \o UpToWs(Tail(t))
FirstWord(t) == UpToWs(LStrip(t))

BUSINESS == <<"b">>

\* line 556
Fallback(main_topic) == IF main_topic # <<>> THEN FirstWord(main_topic) ELSE BUSINESS

ImgTopics == {<<>>, <<WS>>, <<"A">>, <<"A", WS, "B">>}
ImgTitles == {<<"A">>, <<"a">>, <<"B">>}
ImgPrompts == {<<>>, <<WS>>, <<"a">>, <<WS, "B", WS>>}
ImgInputs ==
    [main_topic : ImgTopics, slide_title : ImgTitles, image_prompt : ImgPrompts,
     google_api_key : BOOLEAN, google_cx : BOOLEAN,
     use_unsplash : BOOLEAN, use_pexels : BOOLEAN, pexels_key : BOOLEAN]

GoogleOn(a) == a.google_api_key /\ a.google_cx
PexelsOn(a) == a.use_pexels /\ a.pexels_key
UnsplashOn(a) == a.use_unsplash

\* lines 535-537: entry of get_topic_relevant_image
InitImage ==
    /\ img_in \in ImgInputs
    /\ search_terms = <<>>
    /\ img_i = 0
    /\ img_pc = "entry"
    /\ img_calls = <<>>
    /\ image_data = "None"
    /\ PipeInit({[p \in Procs |-> NoInput]}) /\ RetryIdle /\ PptIdle /\ DbIdle

otherThanImg == <<pipeVars, retryVars, pptVars, dbVars>>

\* line 538, and the for loop's first test at line 540
SearchTerms ==
    /\ img_pc = "entry"
    /\ search_terms' = generate_topic_search_terms(img_in.main_topic,
                            img_in.slide_title, img_in.image_prompt)
    /\ img_i' = 1
    /\ img_pc' = IF search_terms' = <<>> THEN "fallback" ELSE "google"
    /\ UNCHANGED <<img_in, img_calls, image_data, otherThanImg>>

\* one provider call: the provider is asked for the term, and its answer,
\* when it is an image, is returned at once
Ask(provider, term, then) ==
    \E hit \in BOOLEAN :
        /\ img_calls' = Append(img_calls, [provider |-> provider, term |-> term, hit |-> hit])
        /\ IF hit THEN image_data' = "image" /\ img_pc' = "returned"
                  ELSE image_data' = "None" /\ img_pc' = then

\* lines 541-544
TryGoogle ==
    /\ img_pc = "google"
    /\ IF GoogleOn(img_in)
       THEN Ask("google", search_terms[img_i], "pexels")
       ELSE img_pc' = "pexels" /\ UNCHANGED <<img_calls, image_data>>
    /\ UNCHANGED <<img_in, search_terms, img_i, otherThanImg>>

\* lines 546-549
TryPexels ==
    /\ img_pc = "pexels"
    /\ IF PexelsOn(img_in)
       THEN Ask("pexels", search_terms[img_i], "unsplash")
       ELSE img_pc' = "unsplash" /\ UNCHANGED <<img_calls, image_data>>
    /\ UNCHANGED <<img_in, search_terms, img_i, otherThanImg>>

\* lines 551-554, and the for loop's next test at line 540
TryUnsplash ==
    /\ img_pc = "unsplash"
    /\ LET then == IF img_i < Len(search_terms) THEN "google" ELSE "fallback"
       IN  IF UnsplashOn(img_in)
           THEN Ask("unsplash", search_terms[img_i], then)
           ELSE img_pc' = then /\ UNCHANGED <<img_calls, image_data>>
    /\ img_i' = IF img_pc' = "google" THEN img_i + 1 ELSE img_i
    /\ UNCHANGED <<img_in, search_terms, otherThanImg>>

\* line 556: main_topic.split()[0] raises IndexError when the topic is blank
FallbackTerm ==
    /\ img_pc = "fallback"
    /\ img_pc' = IF Fallback(img_in.main_topic) = <<>> THEN "raised" ELSE "fb_google"
    /\ UNCHANGED <<img_in, search_terms, img_i, img_calls, image_data, otherThanImg>>

\* lines 558-561
FallbackGoogle ==
    /\ img_pc = "fb_google"
    /\ IF GoogleOn(img_in)
       THEN Ask("google", Fallback(img_in.main_topic), "fb_unsplash")
       ELSE img_pc' = "fb_unsplash" /\ UNCHANGED <<img_calls, image_data>>
    /\ UNCHANGED <<img_in, search_terms, img_i, otherThanImg>>

\* lines 563-568
FallbackUnsplash ==
    /\ img_pc = "fb_unsplash"
    /\ IF UnsplashOn(img_in)
       THEN Ask("unsplash", Fallback(img_in.main_topic), "returned")
       ELSE img_pc' = "returned" /\ UNCHANGED <<img_calls, image_data>>
    /\ UNCHANGED <<img_in, search_terms, img_i, otherThanImg>>

NextImage ==
    \/ SearchTerms
    \/ TryGoogle
    \/ TryPexels
    \/ TryUnsplash
    \/ FallbackTerm
    \/ FallbackGoogle
    \/ FallbackUnsplash
SpecImage == InitImage /\ [][NextImage]_vars

(***************************************************************************)
(* What the image lookup is expected to do.                                *)
(***************************************************************************)
\* the four candidate terms in priority order, absent ones left out
PriorityTerms(a) ==
    SelectSeq(<< Strip(a.image_prompt),
                 IF a.main_topic # <<>> /\ a.slide_title # <<>>
                 THEN a.main_topic \o <<WS>> \o a.slide_title ELSE <<>>,
                 a.slide_title,
                 a.main_topic >>,
              LAMBDA t : Strip(t) # <<>>)
\* a term is kept when no earlier one reads the same, case and margins aside
Deduplicated(ts) ==
    LET keep == {k \in 1..Len(ts) :
                    \A j \in 1..(k - 1) : Strip(Lower(ts[j])) # Strip(Lower(ts[k]))}
        RECURSIVE Pick(_)
        Pick(k) == IF k > Len(ts) THEN <<>>
                   ELSE (IF k \in keep THEN <<ts[k]>> ELSE <<>>) \o Pick(k + 1)
    IN  Pick(1)
EnabledProviders(a) ==
    (IF GoogleOn(a) THEN <<"google">> ELSE <<>>)
    \o (IF PexelsOn(a) THEN <<"pexels">> ELSE <<>>)
    \o (IF UnsplashOn(a) THEN <<"unsplash">> ELSE <<>>)
\* every term with every provider in ps, terms outermost
RECURSIVE Attempts(_, _)
Attempts(ts, ps) ==
    IF ts = <<>> THEN <<>>
    ELSE [k \in 1..Len(ps) |-> [provider |-> ps[k], term |-> Head(ts)]]
         \o Attempts(Tail(ts), ps)
\* the attempts of a whole lookup: the terms, then the fallback term
AllAttempts(a) ==
    Attempts(Deduplicated(PriorityTerms(a)) \o <<Fallback(a.main_topic)>>,
             EnabledProviders(a))
\* the same, the fallback term being asked of Google and Unsplash only
AttemptsMade(a) ==
    Attempts(Deduplicated(PriorityTerms(a)), EnabledProviders(a))
    \o Attempts(<<Fallback(a.main_topic)>>,
                SelectSeq(EnabledProviders(a), LAMBDA q : q # "pexels"))
Asked(calls) == [k \in 1..Len(calls) |-> [provider |-> calls[k].provider, term |-> calls[k].term]]
FirstSuccess ==
    /\ \A k \in 1..Len(img_calls) :
          img_calls[k].hit => k = Len(img_calls) /\ img_pc = "returned" /\ image_data = "image"
    /\ (img_pc = "returned" /\ image_data = "image") =>
          img_calls # <<>> /\ img_calls[Len(img_calls)].hit

\* C23: the provider calls made so far are the first ones of the list
\* (term by term in priority order, de-duplicated, each with the enabled
\* providers Google, Pexels, Unsplash, then the fallback term the same
\* way); only the last call can have yielded an image, and then that
\* image is returned; None is returned only after the whole list was
\* asked and yielded nothing.
C23_LookupOrder ==
    /\ IsPrefix(Asked(img_calls), AllAttempts(img_in))
    /\ FirstSuccess
    /\ (img_pc = "returned" /\ image_data = "None") =>
          Asked(img_calls) = AllAttempts(img_in)

\* What holds: the same with the fallback term asked of Google and
\* Unsplash only, for a topic that is not blank.
C23_LookupOrderGoogleUnsplashFallback ==
    (img_pc # "idle" /\ Fallback(img_in.main_topic) # <<>>) =>
        /\ IsPrefix(Asked(img_calls), AttemptsMade(img_in))
        /\ FirstSuccess
        /\ (img_pc = "returned" /\ image_data = "None") =>
              Asked(img_calls) = AttemptsMade(img_in)
        /\ img_pc # "raised"

\* a blank topic whose every term yields nothing: line 556 raises
C23_BlankTopicNeverRaises == img_pc # "raised"

(***************************************************************************)
(* create_powerpoint, lines 846-962, run on a draft that                   *)
(* generate_content_with_claude returned.  A slide of the deck is          *)
(* remembered by what was put on it.                                       *)
(***************************************************************************)
\* the most records in a draft given to create_powerpoint
MaxDraft == 3
\* the records drafts are made of: with a title alone, with every field,
\* without a title
DraftPool == <<SlidePool[1], SlidePool[2], SlidePool[3]>>
\* lines 737-745 applied to the records of a parsed document
DraftOf(ids) ==
    NormalizeLoop(List([i \in 1..Len(ids) |-> Denote(DraftPool[ids[i]])]), Topic).val.v
Drafts == {DraftOf(ids) : ids \in UNION {[1..n -> 1..Len(DraftPool)] : n \in 1..MaxDraft}}
WITH_IMAGES == "With Images"
ImageModes == {WITH_IMAGES, "No Images"}
\* what the lookup and the embedding of one slide's image come to
ImageOutcomes == {"nothing", "embedded", "unembeddable"}

\* lines 846-875: entry of create_powerpoint, the deck still empty
InitPpt ==
    /\ ppt_in \in [slides_content : Drafts, image_mode : ImageModes]
    /\ ppt_idx = 0
    /\ prs = <<>>
    /\ ppt_pc = "loop"
    /\ PipeInit({[p \in Procs |-> NoInput]}) /\ RetryIdle /\ ImgIdle /\ DbIdle

otherThanPpt == <<pipeVars, retryVars, imgVars, dbVars>>

\* slide_data.get(key): the value, None when the key is absent
Get(slide_data, key) == IF key \in DOMAIN slide_data.v THEN slide_data.v[key] ELSE None

\* lines 881-957: one pass of the loop.  The slide is added at line 882
\* before anything is read from the record; slide_data["title"] at line
\* 898 raises KeyError when the record has no title.
AddSlide(slide_data, idx, image_mode, outcome) ==
    IF K_TITLE \notin DOMAIN slide_data.v
    THEN [exc |-> "KeyError", slide |-> [title |-> None, bullets |-> None,
                                         notes |-> None, picture |-> FALSE]]
    ELSE [exc |-> "",
          slide |-> [title |-> slide_data.v[K_TITLE],
                     bullets |-> IF idx > 0 /\ Truthy(Get(slide_data, K_BULLETS))
                                 THEN slide_data.v[K_BULLETS] ELSE None,
                     notes |-> IF Truthy(Get(slide_data, K_NOTES))
                               THEN slide_data.v[K_NOTES] ELSE None,
                     picture |-> idx > 0 /\ image_mode = WITH_IMAGES
                                 /\ outcome = "embedded"]]

\* lines 876-957: the loop body for the record at ppt_idx
PptSlide ==
    /\ ppt_pc = "loop"
    /\ ppt_idx < Len(ppt_in.slides_content)
    /\ \E outcome \in ImageOutcomes :
          LET r == AddSlide(ppt_in.slides_content[ppt_idx + 1], ppt_idx,
                            ppt_in.image_mode, outcome)
          IN  /\ prs' = Append(prs, r.slide)
              /\ ppt_pc' = IF r.exc = "" THEN "loop" ELSE "raised"
              /\ ppt_idx' = IF r.exc = "" THEN ppt_idx + 1 ELSE ppt_idx
    /\ UNCHANGED <<ppt_in, otherThanPpt>>

\* lines 958-962: the loop is over, return prs
PptReturn ==
    /\ ppt_pc = "loop"
    /\ ppt_idx = Len(ppt_in.slides_content)
    /\ ppt_pc' = "returned"
    /\ UNCHANGED <<ppt_in, ppt_idx, prs, otherThanPpt>>

NextPpt == PptSlide \/ PptReturn
SpecPpt == InitPpt /\ [][NextPpt]_vars

TitledDraft == \A i \in 1..Len(ppt_in.slides_content) :
                  K_TITLE \in DOMAIN ppt_in.slides_content[i].v
\* the slides made so far stand for the first records, in order
SlidesFollowDraft ==
    /\ Len(prs) = ppt_idx
    /\ \A i \in 1..Len(prs) : prs[i].title = Get(ppt_in.slides_content[i], K_TITLE)

\* C24: create_powerpoint never stops before its last record: the slides
\* made so far are one per record in the draft's order, whatever the
\* image lookups gave, and the deck it returns has exactly one slide per
\* record of the draft.
C24_OneSlidePerRecord ==
    ppt_pc # "idle" =>
        /\ ppt_pc # "raised"
        /\ SlidesFollowDraft
        /\ ppt_pc = "returned" => Len(prs) = Len(ppt_in.slides_content)

\* What holds: the same for a draft whose records all have a title.
C24_OneSlidePerTitledRecord ==
    (ppt_pc # "idle" /\ TitledDraft) =>
        /\ ppt_pc # "raised"
        /\ SlidesFollowDraft
        /\ ppt_pc = "returned" => Len(prs) = Len(ppt_in.slides_content)

(***************************************************************************)
(* The users and sessions tables, lines 38-97, and the functions that      *)
(* read and write them.  Each function opens its own connection; SQLite    *)
(* lets one connection write at a time, from its first UPDATE, INSERT or   *)
(* DELETE to its commit, so the statements a call commits together are one *)
(* step.  The SELECT of verify_user runs before that transaction begins:   *)
(* other calls can commit between the two.  A row id is never used twice   *)
(* (AUTOINCREMENT); a timestamp is the number of the session row the login *)
(* inserts.                                                                *)
(***************************************************************************)
\* the browser sessions calling verify_user
Browsers == {1, 2}
\* the highest user id and the most session rows the tables get
MaxUserId == 2
MaxSessionRows == 2

\* the credentials tried: the admin's, bob's, bob's name with a wrong
\* password, and a name no account has
Credentials ==
    {[username |-> "admin", password |-> "admin123"],
     [username |-> "bob", password |-> "pw"],
     [username |-> "bob", password |-> "bad"],
     [username |-> "eve", password |-> "pw"]}
NoCredentials == [username |-> "", password |-> ""]

\* lines 99-100: the hash is compared for equality only
hash_password(password) == [sha256 |-> password]

\* lines 88-93: the admin row init_database inserts
AdminRow == [username |-> "admin", password_hash |-> hash_password("admin123"),
             role |-> "admin", is_active |-> TRUE, last_login |-> 0]
\* fetchone() found no row
NoRow == [id |-> 0, username |-> "", role |-> "", is_active |-> FALSE]
\* verify_user returned None
LoginNone == [id |-> 0, session_token |-> 0]

\* lines 38-97: the database after init_database
InitDb ==
    /\ users = [id \in {1} |-> AdminRow]
    /\ sessions = <<>>
    /\ next_id = 2
    /\ login_pc = [b \in Browsers |-> "idle"]
    /\ login_user = [b \in Browsers |-> NoRow]
    /\ login_result = [b \in Browsers |-> LoginNone]
    /\ last_op = [op |-> "init_database", user_id |-> 0, by |-> 0,
                  args |-> NoCredentials]
    /\ PipeInit({[p \in Procs |-> NoInput]}) /\ RetryIdle /\ ImgIdle /\ PptIdle

otherThanDb == <<pipeVars, retryVars, imgVars, pptVars>>

\* lines 109-112: the row with that username and password hash (username
\* is UNIQUE, so there is at most one)
SelectUser(username, password_hash) ==
    LET found == {id \in DOMAIN users :
                    /\ users[id].username = username
                    /\ users[id].password_hash = password_hash}
    IN  IF found = {} THEN NoRow
        ELSE LET id == CHOOSE id \in found : TRUE
             IN  [id |-> id, username |-> users[id].username,
                  role |-> users[id].role, is_active |-> users[id].is_active]

\* line 114 with the test of is_active lost
LoginAllowed_IgnoreDisabled(user) == user # NoRow
\* line 114: if user and user[3]
LoginAllowed(user) == user # NoRow /\ user.is_active

\* UPDATE sessions SET is_active = 0 WHERE user_id = ? AND is_active = 1
Deactivate(rows, user_id) ==
    [i \in 1..Len(rows) |->
        IF rows[i].user_id = user_id /\ rows[i].is_active
        THEN [rows[i] EXCEPT !.is_active = FALSE] ELSE rows[i]]

\* lines 118-130 with the UPDATE of lines 118-122 lost
LoginSessions_NoDeactivate(rows, user_id) ==
    Append(rows, [user_id |-> user_id, is_active |-> TRUE])
\* lines 118-130: the user's active sessions are closed, one is inserted
LoginSessions(rows, user_id) ==
    Append(Deactivate(rows, user_id), [user_id |-> user_id, is_active |-> TRUE])

\* lines 148-161: create_user_by_admin; a taken username changes nothing
CreateUser ==
    /\ next_id <= MaxUserId
    /\ \E username \in {"admin", "bob"} :
          IF \E id \in DOMAIN users : users[id].username = username
          THEN UNCHANGED <<users, next_id>>
          ELSE /\ users' = [id \in DOMAIN users \cup {next_id} |->
                              IF id = next_id
                              THEN [username |-> username,
                                    password_hash |-> hash_password("pw"),
                                    role |-> "user", is_active |-> TRUE,
                                    last_login |-> 0]
                              ELSE users[id]]
               /\ next_id' = next_id + 1
    /\ last_op' = [op |-> "create_user_by_admin", user_id |-> 0, by |-> 0,
                   args |-> NoCredentials]
    /\ UNCHANGED <<sessions, login_pc, login_user, login_result, otherThanDb>>

\* lines 102-114 and 140-141: the SELECT of verify_user; without a row of
\* an enabled account the call returns None here
VerifySelect(b) ==
    /\ login_pc[b] # "selected"
    /\ \E args \in Credentials :
          LET user == SelectUser(args.username, hash_password(args.password))
          IN  /\ login_user' = [login_user EXCEPT ![b] =
                                  IF LoginAllowed(user) THEN user ELSE NoRow]
              /\ login_pc' = [login_pc EXCEPT ![b] =
                                IF LoginAllowed(user) THEN "selected" ELSE "done"]
              /\ last_op' = [op |-> "select", user_id |-> user.id, by |-> b,
                             args |-> args]
    /\ login_result' = [login_result EXCEPT ![b] = LoginNone]
    /\ UNCHANGED <<users, sessions, next_id, otherThanDb>>

\* lines 115-138: the transaction of verify_user and its return value
VerifyCommit(b) ==
    /\ login_pc[b] = "selected"
    /\ Len(sessions) < MaxSessionRows
    /\ LET user_id == login_user[b].id
       IN  /\ users' = [id \in DOMAIN users |->
                           IF id = user_id
                           THEN [users[id] EXCEPT !.last_login = Len(sessions) + 1]
                           ELSE users[id]]
           /\ sessions' = LoginSessions(sessions, user_id)
           /\ login_result' = [login_result EXCEPT ![b] =
                                 [id |-> user_id, session_token |-> Len(sessions) + 1]]
           /\ last_op' = [op |-> "login", user_id |-> user_id, by |-> b,
                          args |-> NoCredentials]
    /\ login_pc' = [login_pc EXCEPT ![b] = "done"]
    /\ login_user' = [login_user EXCEPT ![b] = NoRow]
    /\ UNCHANGED <<next_id, otherThanDb>>

\* lines 142-144: a statement of the transaction raises (the database is
\* locked by another connection past the timeout); nothing is committed
\* and verify_user returns None
VerifyRaises(b) ==
    /\ login_pc[b] = "selected"
    /\ login_pc' = [login_pc EXCEPT ![b] = "done"]
    /\ login_user' = [login_user EXCEPT ![b] = NoRow]
    /\ login_result' = [login_result EXCEPT ![b] = LoginNone]
    /\ last_op' = [op |-> "raised", user_id |-> login_user[b].id, by |-> b,
                   args |-> NoCredentials]
    /\ UNCHANGED <<users, sessions, next_id, otherThanDb>>

\* lines 163-174
logout_user(user_id) ==
    /\ sessions' = Deactivate(sessions, user_id)
    /\ last_op' = [op |-> "logout_user", user_id |-> user_id, by |-> 0,
                   args |-> NoCredentials]
    /\ UNCHANGED <<users, next_id, login_pc, login_user, login_result,
                   otherThanDb>>

\* lines 281-287
toggle_user_status(user_id, is_active) ==
    /\ users' = [id \in DOMAIN users |->
                    IF id = user_id THEN [users[id] EXCEPT !.is_active = is_active]
                    ELSE users[id]]
    /\ last_op' = [op |-> IF is_active THEN "enable" ELSE "disable",
                   user_id |-> user_id, by |-> 0, args |-> NoCredentials]
    /\ UNCHANGED <<sessions, next_id, login_pc, login_user, login_result,
                   otherThanDb>>

\* lines 289-295
delete_user(user_id) ==
    /\ users' = [id \in DOMAIN users \ {user_id} |-> users[id]]
    /\ last_op' = [op |-> "delete_user", user_id |-> user_id, by |-> 0,
                   args |-> NoCredentials]
    /\ UNCHANGED <<sessions, next_id, login_pc, login_user, login_result,
                   otherThanDb>>

\* lines 255-279: currently_online of get_system_stats
currently_online == Cardinality({i \in 1..Len(sessions) : sessions[i].is_active})

\* lines 207-223: the user ids get_currently_logged_in_users lists (sessions
\* joined with users)
get_currently_logged_in_users ==
    {sessions[i].user_id : i \in {j \in 1..Len(sessions) :
                                    sessions[j].is_active
                                    /\ sessions[j].user_id \in DOMAIN users}}

NextDb ==
    \/ CreateUser
    \/ \E b \in Browsers : VerifySelect(b)
    \/ \E b \in Browsers : VerifyCommit(b)
    \/ \E b \in Browsers : VerifyRaises(b)
    \/ \E user_id \in 1..(next_id - 1) : logout_user(user_id)
    \/ \E user_id \in 1..(next_id - 1), is_active \in BOOLEAN :
          toggle_user_status(user_id, is_active)
    \/ \E user_id \in 1..(next_id - 1) : delete_user(user_id)
SpecDb == InitDb /\ [][NextDb]_vars

ActiveSessions(user_id) ==
    {i \in 1..Len(sessions) : sessions[i].user_id = user_id /\ sessions[i].is_active}

\* C25: every user id has at most one active session row, and right after
\* a successful login the one active row of that user is the row the
\* login inserted.
C25_AtMostOneActiveSession ==
    /\ \A user_id \in 1..MaxUserId : Cardinality(ActiveSessions(user_id)) <= 1
    /\ last_op.op = "login" =>
          /\ ActiveSessions(last_op.user_id) = {Len(sessions)}
          /\ login_result[last_op.by] =
                [id |-> last_op.user_id, session_token |-> Len(sessions)]
\* the same user logged in from both browser sessions, the earlier login's
\* session closed by the later one
C25_Witness ==
    /\ login_pc = [b \in Browsers |-> "done"]
    /\ login_result[1].id = 2 /\ login_result[2].id = 2
    /\ login_result[1].session_token # login_result[2].session_token
    /\ last_op.op = "login"
    /\ \E i \in 1..Len(sessions) : sessions[i].user_id = 2 /\ ~sessions[i].is_active

\* the credentials name no account, or the account is disabled
BadCredentials(args) ==
    \A id \in DOMAIN users :
        (users[id].username = args.username
         /\ users[id].password_hash = hash_password(args.password))
        => ~users[id].is_active
C26_Step(b) ==
    (last_op'.op = "select" /\ last_op'.by = b /\ BadCredentials(last_op'.args))
    => /\ login_pc'[b] = "done"
       /\ login_result'[b] = LoginNone
       /\ users' = users
       /\ sessions' = sessions
\* C26: a verify_user call with an unknown username, a wrong password or
\* the credentials of a disabled account returns None and leaves the
\* users table (last_login included) and the sessions table as they were.
C26_FailedLoginChangesNothing == [][\A b \in Browsers : C26_Step(b)]_vars
\* a login refused for a disabled account that still has an active
\* session and a last_login
C26_Witness ==
    /\ last_op.op = "select"
    /\ last_op.user_id \in DOMAIN users
    /\ ~users[last_op.user_id].is_active
    /\ users[last_op.user_id].last_login # 0
    /\ ActiveSessions(last_op.user_id) # {}
    /\ login_pc[last_op.by] = "done"
    /\ login_result[last_op.by] = LoginNone

\* C27: right after toggle_user_status(u, 0) or delete_user(u), user u has
\* no active session, is not listed by get_currently_logged_in_users, and
\* no active session of a disabled or deleted user is counted in
\* currently_online.
C27_DisabledOrDeletedHasNoSession ==
    last_op.op \in {"disable", "delete_user"} =>
        /\ ActiveSessions(last_op.user_id) = {}
        /\ last_op.user_id \notin get_currently_logged_in_users
        /\ currently_online =
              Cardinality({i \in 1..Len(sessions) :
                             sessions[i].is_active /\ sessions[i].user_id # last_op.user_id})
\* What holds: a deleted user is not listed, the join with users drops it.
C27_DeletedNotListed ==
    last_op.op = "delete_user" =>
        last_op.user_id \notin get_currently_logged_in_users
====
